---------------------------- MODULE Spec2Model ----------------------------
(***************************************************************************)
(* A model of decrypter.py: the byte cipher decrypt_content, the per-file  *)
(* driver decrypt_file, the batch walker process_directory and the command *)
(* main.                                                                   *)
(*                                                                         *)
(* Byte strings are sequences of integers 0..255 (1-based here, 0-based in *)
(* the source: key[i] of the source is key[i + 1] of the model).  File     *)
(* names are sequences of characters, paths are sequences of names.        *)
(*                                                                         *)
(* Two specifications:                                                     *)
(*   SpecCipher  one call of decrypt_content, one loop iteration a step;   *)
(*   Spec        one run of main over a small file system.                 *)
(***************************************************************************)
EXTENDS Integers, Sequences, FiniteSets, TLC

VARIABLES
    \* ---- decrypt_content (SpecCipher) ----
    encrypted_content,  \* argument
    key,                \* argument
    header,             \* argument
    data,               \* the bytearray of line 21
    key_idx,            \* line 24
    data_idx,           \* the loop variable of line 26
    cpc,                \* position in decrypt_content
    result,             \* what the call returned (or raised)
    \* ---- main (Spec) ----
    argv,               \* the command line, as click hands it to main
    fs,                 \* regular files: path -> content
    dirs,               \* existing directories
    fs0,                \* the files as they were before the run
    dirs0,              \* the directories as they were before the run
    pc,                 \* position in main / process_directory
    key_bytes,          \* line 122
    header_bytes,       \* line 123
    files_to_process,   \* line 70/83
    success_count,      \* line 85
    idx,                \* the loop index of line 95
    returned,           \* what process_directory returned (line 90/105)
    calls,              \* every decrypt_file call of the run, in order
    touched,            \* file-system effects of main itself (line 173)
    fatal,              \* the configuration error main reported, if any
    exit_status         \* the exit status of the command

cvars == <<encrypted_content, key, header, data, key_idx, data_idx, cpc, result>>
mvars == <<argv, fs, dirs, fs0, dirs0, pc, key_bytes, header_bytes, files_to_process,
           success_count, idx, returned, calls, touched, fatal, exit_status>>
vars == <<cvars, mvars>>

-----------------------------------------------------------------------------
(* Bounds of the model. *)

MaxKeyLen == 3
MaxHdrLen == 2
MaxBodyLen == 4

KeyBytes == {2, 255}
HeaderBytes == {65, 66}
PlainBytes == {16, 32}

RECURSIVE SeqsUpTo(_, _)
SeqsUpTo(S, n) ==
    IF n = 0 THEN {<<>>}
    ELSE LET shorter == SeqsUpTo(S, n - 1)
         IN  shorter \cup {Append(s, x) : s \in {t \in shorter : Len(t) = n - 1}, x \in S}

-----------------------------------------------------------------------------
(* Python's integer operators, on unbounded two's-complement integers. *)

RECURSIVE BitAnd(_, _)
BitAnd(a, b) ==
    IF a = 0 \/ b = 0 THEN 0
    ELSE ((a % 2) * (b % 2)) + 2 * BitAnd(a \div 2, b \div 2)

RECURSIVE BitXor(_, _)
BitXor(a, b) ==
    IF a = 0 THEN b
    ELSE IF b = 0 THEN a
    ELSE (((a % 2) + (b % 2)) % 2) + 2 * BitXor(a \div 2, b \div 2)

RECURSIVE Pow2Above(_)
Pow2Above(n) == IF n <= 0 THEN 1 ELSE 2 * Pow2Above(n \div 2)

\* ~x
Invert(x) == -x - 1

\* a & b: a negative operand is an infinite run of one bits above its low bits.
PyAnd(a, b) ==
    IF a >= 0 /\ b >= 0 THEN BitAnd(a, b)
    ELSE IF b >= 0 THEN BitAnd(a % Pow2Above(b), b)
    ELSE IF a >= 0 THEN BitAnd(a, b % Pow2Above(a))
    ELSE LET na == Invert(a)
             nb == Invert(b)
             w == Pow2Above(IF na > nb THEN na ELSE nb)
         IN  Invert((w - 1) - BitAnd((w - 1) - na, (w - 1) - nb))

\* a ^ b, for the non-negative operands of line 29
PyXor(a, b) == BitXor(a, b)

ByteMask == 255

-----------------------------------------------------------------------------
(* Python sequences. *)

\* s[:n]
Take(s, n) == SubSeq(s, 1, IF n < Len(s) THEN n ELSE Len(s))

\* s[n:]
Drop(s, n) == SubSeq(s, n + 1, Len(s))

\* key[i] for i >= 0: an index past the end raises IndexError
InRange(s, i) == i >= 0 /\ i < Len(s)

-----------------------------------------------------------------------------
(* decrypt_content, lines 15-31. *)

NoneResult == [kind |-> "None", data |-> <<>>]
BytesResult(d) == [kind |-> "bytes", data |-> d]
IndexErrorResult == [kind |-> "IndexError", data |-> <<>>]

\* line 18: encrypted_content[: len(header)] != header
HeaderMismatchShortIsMatch(enc, hdr) == Take(enc, Len(hdr)) /= Take(hdr, Len(enc))

HeaderMismatch(enc, hdr) == Take(enc, Len(hdr)) /= hdr

\* line 28, the right-hand side; k is a valid index of ky
NextKeyIdxMaskLen(ky, k, i) == PyAnd(ky[k + 1] + i + k, Len(ky))

NextKeyIdx(ky, k, i) == PyAnd(ky[k + 1] + i + k, Len(ky) - 1)

\* line 29, the right-hand side
DecodeByteNoInvert(kb, b) == PyXor(kb, PyAnd(b, ByteMask))

DecodeByte(kb, b) == PyXor(kb, PyAnd(Invert(b), ByteMask))

\* lines 27-29: one iteration of the loop, from (data, key_idx) at data_idx.
\* err is set when key[...] raises IndexError.
LoopBody(d, ky, k, i) ==
    IF PyAnd(i, 1) = 0 THEN [data |-> d, key_idx |-> k, err |-> FALSE]
    ELSE IF ~InRange(ky, k) THEN [data |-> d, key_idx |-> k, err |-> TRUE]
    ELSE LET k2 == NextKeyIdx(ky, k, i)
         IN  IF ~InRange(ky, k2) THEN [data |-> d, key_idx |-> k2, err |-> TRUE]
             ELSE [data |-> [d EXCEPT ![i + 1] = DecodeByte(ky[k2 + 1], d[i + 1])],
                   key_idx |-> k2, err |-> FALSE]

\* lines 26-31: the loop from data_idx = i to the end, and the return
RECURSIVE DecryptLoop(_, _, _, _)
DecryptLoop(d, ky, k, i) ==
    IF i >= Len(d) THEN BytesResult(d)
    ELSE LET s == LoopBody(d, ky, k, i)
         IN  IF s.err THEN IndexErrorResult
             ELSE DecryptLoop(s.data, ky, s.key_idx, i + 1)

\* the whole call
decrypt_content(enc, ky, hdr) ==
    IF HeaderMismatch(enc, hdr) THEN NoneResult
    ELSE DecryptLoop(Drop(enc, Len(hdr)), ky, 0, 0)

-----------------------------------------------------------------------------
(* encode of the specification (section 8, "Inverse consistency"): the      *)
(* transform that produces the files decrypt_content reads.  It is not in   *)
(* the source; it generates inputs and states the round-trip law.           *)

RECURSIVE EncodeLoop(_, _, _, _)
EncodeLoop(p, ky, k, i) ==
    IF i >= Len(p) THEN p
    ELSE IF i % 2 = 0 THEN EncodeLoop(p, ky, k, i + 1)
    ELSE LET k2 == PyAnd(ky[k + 1] + i + k, Len(ky) - 1)
         IN  EncodeLoop([p EXCEPT ![i + 1] =
                            PyAnd(Invert(PyXor(ky[k2 + 1], p[i + 1])), 255)],
                        ky, k2, i + 1)

Encode(p, ky) == EncodeLoop(p, ky, 0, 0)

-----------------------------------------------------------------------------
(* The inputs of SpecCipher. *)

Keys == SeqsUpTo(KeyBytes, MaxKeyLen)
Headers == SeqsUpTo(HeaderBytes, MaxHdrLen)
Plains == SeqsUpTo(PlainBytes, MaxBodyLen)

\* bodies of encoded files: encodings under the key (raw bytes for the empty
\* key, under which nothing can be encoded)
Bodies(ky) == IF Len(ky) = 0 THEN Plains ELSE {Encode(p, ky) : p \in Plains}

NoArgv == [key |-> <<>>, header |-> <<>>, input_path |-> <<>>, output |-> <<>>,
           has_output |-> FALSE, ext |-> <<>>, overwrite |-> FALSE]

\* the variables of main, at rest while decrypt_content is examined alone
MainIdle ==
    /\ argv = NoArgv
    /\ fs = <<>>
    /\ dirs = {}
    /\ fs0 = <<>>
    /\ dirs0 = {}
    /\ pc = "idle"
    /\ key_bytes = <<>>
    /\ header_bytes = <<>>
    /\ files_to_process = <<>>
    /\ success_count = 0
    /\ idx = 0
    /\ returned = <<>>
    /\ calls = <<>>
    /\ touched = {}
    /\ fatal = "none"
    /\ exit_status = -1

CipherInit ==
    /\ key \in Keys
    /\ header \in Headers
    /\ \E pre \in Headers, body \in Bodies(key) : encrypted_content = pre \o body
    /\ data = <<>>
    /\ key_idx = 0
    /\ data_idx = 0
    /\ cpc = "entry"
    /\ result = [kind |-> "pending", data |-> <<>>]
    /\ MainIdle

\* lines 18-24: the header check, the copy of the body, the loop's set-up
CheckHeader ==
    /\ cpc = "entry"
    /\ IF HeaderMismatch(encrypted_content, header)
       THEN /\ result' = NoneResult
            /\ cpc' = "done"
            /\ UNCHANGED <<data, key_idx, data_idx>>
       ELSE LET d == Drop(encrypted_content, Len(header))
            IN  /\ data' = d
                /\ IF Len(d) > 0
                   THEN /\ key_idx' = 0
                        /\ data_idx' = 0
                        /\ cpc' = "loop"
                        /\ UNCHANGED result
                   ELSE /\ result' = BytesResult(d)
                        /\ cpc' = "done"
                        /\ UNCHANGED <<key_idx, data_idx>>
    /\ UNCHANGED <<encrypted_content, key, header>>
    /\ UNCHANGED mvars

\* lines 26-29: one iteration
LoopStep ==
    /\ cpc = "loop"
    /\ data_idx < Len(data)
    /\ LET s == LoopBody(data, key, key_idx, data_idx)
       IN  IF s.err
           THEN /\ result' = IndexErrorResult
                /\ cpc' = "done"
                /\ key_idx' = s.key_idx
                /\ UNCHANGED <<data, data_idx>>
           ELSE /\ data' = s.data
                /\ key_idx' = s.key_idx
                /\ data_idx' = data_idx + 1
                /\ UNCHANGED <<cpc, result>>
    /\ UNCHANGED <<encrypted_content, key, header>>
    /\ UNCHANGED mvars

\* line 31, after the last iteration
LoopReturn ==
    /\ cpc = "loop"
    /\ data_idx >= Len(data)
    /\ result' = BytesResult(data)
    /\ cpc' = "done"
    /\ UNCHANGED <<encrypted_content, key, header, data, key_idx, data_idx>>
    /\ UNCHANGED mvars

CipherNext == CheckHeader \/ LoopStep \/ LoopReturn

SpecCipher == CipherInit /\ [][CipherNext]_vars

-----------------------------------------------------------------------------
(* binascii.unhexlify, lines 122-123.  A hex string is a sequence of         *)
(* characters.                                                               *)

HexLower == <<"0", "1", "2", "3", "4", "5", "6", "7", "8", "9",
              "a", "b", "c", "d", "e", "f">>
HexUpper == <<"0", "1", "2", "3", "4", "5", "6", "7", "8", "9",
              "A", "B", "C", "D", "E", "F">>

IsHexChar(c) == \E i \in 1..16 : HexLower[i] = c \/ HexUpper[i] = c

HexVal(c) == (CHOOSE i \in 1..16 : HexLower[i] = c \/ HexUpper[i] = c) - 1

HexError == [ok |-> FALSE, bytes |-> <<>>]

\* a lenient decoder that drops an odd trailing digit instead of refusing it
UnhexlifyDropsOddDigit(str) ==
    IF \E i \in 1..Len(str) : ~IsHexChar(str[i]) THEN HexError
    ELSE [ok |-> TRUE,
          bytes |-> [i \in 1..(Len(str) \div 2) |->
                        16 * HexVal(str[2 * i - 1]) + HexVal(str[2 * i])]]

\* binascii.Error on an odd length or a non-hex digit, the bytes otherwise
Unhexlify(str) ==
    IF Len(str) % 2 /= 0 THEN HexError
    ELSE IF \E i \in 1..Len(str) : ~IsHexChar(str[i]) THEN HexError
    ELSE [ok |-> TRUE,
          bytes |-> [i \in 1..(Len(str) \div 2) |->
                        16 * HexVal(str[2 * i - 1]) + HexVal(str[2 * i])]]

-----------------------------------------------------------------------------
(* pathlib.  A name is a sequence of characters, a path a sequence of names; *)
(* the empty path is the current directory.                                  *)

Name(p) == p[Len(p)]
Parent(p) == SubSeq(p, 1, Len(p) - 1)
IsUnder(p, dir) == Len(p) > Len(dir) /\ SubSeq(p, 1, Len(dir)) = dir

\* input_file.relative_to(input_dir), line 76
RelativeTo(p, dir) == Drop(p, Len(dir))

\* file.endswith(extension), line 74
EndsWith(nm, ext) ==
    Len(nm) >= Len(ext) /\ SubSeq(nm, Len(nm) - Len(ext) + 1, Len(nm)) = ext

\* str.rfind('.'), 0-based, -1 when there is none
RFindDot(nm) ==
    IF \E i \in 1..Len(nm) : nm[i] = "."
    THEN (CHOOSE i \in 1..Len(nm) :
              nm[i] = "." /\ \A j \in (i + 1)..Len(nm) : nm[j] /= ".") - 1
    ELSE -1

\* PurePath.suffix of a name
Suffix(nm) ==
    LET i == RFindDot(nm)
    IN  IF 0 < i /\ i < Len(nm) - 1 THEN Drop(nm, i) ELSE <<>>

\* PurePath.with_suffix on the last name of p
WithSuffix(p, suffix) ==
    LET nm == Name(p)
        old == Suffix(nm)
        stem == IF old = <<>> THEN nm ELSE Take(nm, Len(nm) - Len(old))
    IN  Append(Parent(p), stem \o suffix)

DotDecoded == <<".", "d", "e", "c", "o", "d", "e", "d">>

\* input_file.with_suffix(input_file.suffix + ".decoded"), lines 81 and 138
Decoded(p) == WithSuffix(p, Suffix(Name(p)) \o DotDecoded)

-----------------------------------------------------------------------------
(* The file system: F maps the paths of regular files to their bytes, D is   *)
(* the set of directories (the current directory, <<>>, always among them).  *)

Exists(F, D, p) == p \in DOMAIN F \/ p \in D
IsFile(F, p) == p \in DOMAIN F
IsDir(D, p) == p \in D

Ancestors(p) == {SubSeq(p, 1, n) : n \in 0..Len(p)}

WriteFile(F, p, bytes) == [q \in DOMAIN F \cup {p} |-> IF q = p THEN bytes ELSE F[q]]

\* Path.mkdir(parents=True, exist_ok=True) on p: the directory sets it can
\* leave behind, with whether it returned (ok) or raised OSError.  It raises
\* when a regular file is in the way, and may raise on any I/O failure, then
\* leaving some of the missing ancestors created.
MkdirParents(F, D, p) ==
    IF \E a \in Ancestors(p) : a \in DOMAIN F
    THEN {[dirs |-> D, ok |-> FALSE]}
    ELSE {[dirs |-> D \cup Ancestors(p), ok |-> TRUE]}
         \cup {[dirs |-> D \cup {a \in Ancestors(p) : Len(a) <= n}, ok |-> FALSE] :
                 n \in 0..(Len(p) - 1)}

\* Path.write_bytes(bytes) on p: open(mode='wb') truncates, then the bytes are
\* written.  It raises on a directory, and may raise on any I/O failure:
\* before the file is opened, or after, leaving a proper prefix of the bytes.
WriteBytes(F, D, p, bytes) ==
    IF p \in D \/ Parent(p) \notin D
    THEN {[fs |-> F, ok |-> FALSE]}
    ELSE {[fs |-> WriteFile(F, p, bytes), ok |-> TRUE], [fs |-> F, ok |-> FALSE]}
         \cup {[fs |-> WriteFile(F, p, Take(bytes, n)), ok |-> FALSE] :
                 n \in 0..(Len(bytes) - 1)}

-----------------------------------------------------------------------------
(* decrypt_file, lines 34-59.  The call is one step; its outcomes are the    *)
(* ways its I/O can go.                                                      *)

NotRun == [kind |-> "not run", data |-> <<>>]

\* what one run of the try block leaves: the file system, the value it is
\* about to return, the exception in flight (exc, raised), the I/O calls it
\* made in order (ops), what decrypt_content gave, whether write_bytes returned
Outcome(F, D, ret, exc, ops, cipher, wrote) ==
    [fs |-> F, dirs |-> D, ret |-> ret, exc |-> exc, raised |-> exc /= "none",
     ops |-> ops, cipher |-> cipher, wrote |-> wrote]

\* line 42: not overwrite and output_file.exists()
SkipCheckInverted(ow, ex) == ow /\ ex

SkipCheck(ow, ex) == ~ow /\ ex

\* line 51: the truth value of what decrypt_content returned
TruthyIfNotNone(r) == r.kind = "bytes"

Truthy(r) == r.kind = "bytes" /\ Len(r.data) > 0

\* lines 52-54
WriteOutcomes(F, D, out, r, ops) ==
    UNION {
        IF ~m.ok
        THEN {Outcome(F, m.dirs, FALSE, "OSError", Append(ops, "mkdir"), r, FALSE)}
        ELSE {IF w.ok
              THEN Outcome(w.fs, m.dirs, TRUE, "none", ops \o <<"mkdir", "write">>, r, TRUE)
              ELSE Outcome(w.fs, m.dirs, FALSE, "OSError", ops \o <<"mkdir", "write">>, r, FALSE)
              : w \in WriteBytes(F, m.dirs, out, r.data)}
        : m \in MkdirParents(F, D, Parent(out))}

\* lines 49-54
ReadOutcomes(F, D, inp, out, ky, hdr, ops) ==
    {Outcome(F, D, FALSE, "OSError", Append(ops, "read"), NotRun, FALSE)}
    \cup
    IF ~IsFile(F, inp) THEN {}
    ELSE LET r == decrypt_content(F[inp], ky, hdr)
             ops2 == Append(ops, "read")
         IN  IF r.kind = "IndexError"
             THEN {Outcome(F, D, FALSE, "IndexError", ops2, r, FALSE)}
             ELSE IF ~Truthy(r)
             THEN {Outcome(F, D, FALSE, "none", ops2, r, FALSE)}
             ELSE WriteOutcomes(F, D, out, r, ops2)

\* lines 41-54: the try block
DecryptFileTry(F, D, inp, out, ky, hdr, ow) ==
    IF ow
    THEN ReadOutcomes(F, D, inp, out, ky, hdr, <<>>)
    ELSE {Outcome(F, D, FALSE, "OSError", <<"exists">>, NotRun, FALSE)}
         \cup
         IF SkipCheck(ow, Exists(F, D, out))
         THEN {Outcome(F, D, FALSE, "none", <<"exists">>, NotRun, FALSE)}
         ELSE ReadOutcomes(F, D, inp, out, ky, hdr, <<"exists">>)

\* a handler that logs and re-raises
ExceptClauseReraises(o) == o

\* lines 56-59: except Exception, then return False
ExceptClause(o) ==
    IF o.exc = "none" THEN o ELSE [o EXCEPT !.ret = FALSE, !.raised = FALSE]

decrypt_file(F, D, inp, out, ky, hdr, ow) ==
    {ExceptClause(o) : o \in DecryptFileTry(F, D, inp, out, ky, hdr, ow)}

\* the record of one call, as kept in calls
CallRecord(F, D, inp, out, o) ==
    [input |-> inp, output |-> out, ret |-> o.ret, raised |-> o.raised,
     exc |-> o.exc, ops |-> o.ops, cipher |-> o.cipher, wrote |-> o.wrote,
     fs_before |-> F, dirs_before |-> D, fs_after |-> o.fs, dirs_after |-> o.dirs]

-----------------------------------------------------------------------------
(* process_directory, lines 62-105, and main, lines 119-191. *)

RECURSIVE Perms(_)
Perms(S) ==
    IF S = {} THEN {<<>>}
    ELSE UNION {{<<x>> \o t : t \in Perms(S \ {x})} : x \in S}

\* os.walk(dir), top down: the files of a directory in some order, then its
\* subdirectories in some order, each walked the same way
RECURSIVE WalkOrders(_, _, _)
RECURSIVE WalkSubdirs(_, _, _)
WalkOrders(F, D, dir) ==
    {here \o below :
        here \in Perms({p \in DOMAIN F : Parent(p) = dir}),
        below \in WalkSubdirs(F, D, {q \in D : Len(q) > 0 /\ Parent(q) = dir})}

WalkSubdirs(F, D, S) ==
    IF S = {} THEN {<<>>}
    ELSE UNION {{first \o rest : first \in WalkOrders(F, D, q),
                                 rest \in WalkSubdirs(F, D, S \ {q})} : q \in S}

\* mirror mode that keeps only the file's name
OutputFileFlat(input_file, input_dir, output_dir) ==
    IF output_dir /= input_dir
    THEN Append(output_dir, Name(input_file))
    ELSE Decoded(input_file)

\* lines 76-81
OutputFile(input_file, input_dir, output_dir) ==
    IF output_dir /= input_dir
    THEN output_dir \o RelativeTo(input_file, input_dir)
    ELSE Decoded(input_file)

\* lines 70-83: a walk filtered by extension, each file with its output path
SelectFiles(walk, input_dir, output_dir, ext) ==
    LET matched == SelectSeq(walk, LAMBDA p : EndsWith(Name(p), ext))
    IN  [i \in 1..Len(matched) |->
            [input |-> matched[i],
             output |-> OutputFile(matched[i], input_dir, output_dir)]]

\* an increment that ignores the result of decrypt_file
BumpAlways(count, ok) == count + 1

\* lines 100-101
Bump(count, ok) == IF ok THEN count + 1 ELSE count

\* the exit status click gives a command whose callback returns
ExitOnReturn == 0

\* lines 134-144: the output file of file mode
FileModeOutput(F, D, a) ==
    IF ~a.has_output THEN Decoded(a.input_path)
    ELSE IF Exists(F, D, a.output) /\ IsDir(D, a.output)
    THEN Append(a.output, Name(a.input_path))
    ELSE a.output

\* line 161: output names something that exists and is no directory
OutputIsNoDirectory(F, D, a) ==
    a.has_output /\ Exists(F, D, a.output) /\ ~IsDir(D, a.output)

\* ---- the runs examined ----

DotPhp == <<".", "p", "h", "p">>
DirD == << <<"d">> >>
DirS == << <<"d">>, <<"s">> >>
DirO == << <<"o">> >>
FileF == << <<"f">> >>
FileA == Append(DirD, <<"a">> \o DotPhp)
FileADecoded == Append(DirD, <<"a">> \o DotPhp \o DotDecoded)
FileB == Append(DirD, <<"b", ".", "t", "x", "t">>)
FileSA == Append(DirS, <<"a">> \o DotPhp)
FileOA == Append(DirO, <<"a">> \o DotPhp)

\* file contents: an encoded file (header "AB", body 10 20), a header with an
\* empty body, a file of another format, an earlier output
Good == <<65, 66, 16, 32>>
HeaderOnly == <<65, 66>>
Other == <<16, 32>>
Old == <<111>>

KeyArgs == {<<"0", "1", "0", "2">>, <<"0", "z">>, <<>>}
HeaderArgs == {<<"4", "1", "4", "2">>, <<"4", "1", "4">>}
ExtArgs == {DotPhp, <<>>}

\* each file that may be there at the start, with the contents it may have
Candidates ==
    {[path |-> FileA, contents |-> {Good, HeaderOnly, Other}],
     [path |-> FileADecoded, contents |-> {Old}],
     [path |-> FileB, contents |-> {Good}],
     [path |-> FileSA, contents |-> {Good}],
     [path |-> FileOA, contents |-> {Old}]}

CandidatePaths == {c.path : c \in Candidates}
ContentsOf(p) == (CHOOSE c \in Candidates : c.path = p).contents

InitialFiles ==
    UNION {{f \in [present \cup {FileF} -> {Good, HeaderOnly, Other, Old}] :
               /\ f[FileF] = Old
               /\ \A p \in present : f[p] \in ContentsOf(p)}
           : present \in SUBSET CandidatePaths}

Init ==
    /\ fs \in InitialFiles
    /\ \E o \in SUBSET {DirO} :
        /\ FileOA \in DOMAIN fs => DirO \in o
        /\ dirs = {<<>>, DirD, DirS} \cup o
    /\ fs0 = fs
    /\ dirs0 = dirs
    /\ \E k \in KeyArgs, h \in HeaderArgs, e \in ExtArgs, ow \in BOOLEAN,
          inp \in {DirD} \cup ({FileA} \cap DOMAIN fs),
          out \in {<<>>, DirD, DirO, DirS, FileF} :
        argv = [key |-> k, header |-> h, input_path |-> inp, output |-> out,
                has_output |-> out /= <<>>, ext |-> e, overwrite |-> ow]
    /\ pc = "start"
    /\ key_bytes = <<>>
    /\ header_bytes = <<>>
    /\ files_to_process = <<>>
    /\ success_count = 0
    /\ idx = 0
    /\ returned = <<>>
    /\ calls = <<>>
    /\ touched = {}
    /\ fatal = "none"
    /\ exit_status = -1
    /\ encrypted_content = <<>>
    /\ key = <<>>
    /\ header = <<>>
    /\ data = <<>>
    /\ key_idx = 0
    /\ data_idx = 0
    /\ cpc = "idle"
    /\ result = [kind |-> "pending", data |-> <<>>]

\* main returns (or its outer handler, lines 189-191, has caught an exception)
\* and click ends the command
Return ==
    /\ pc' = "done"
    /\ exit_status' = ExitOnReturn

\* lines 120-128: the key and the header are decoded, or the run ends
MainDecodeArgs ==
    /\ pc = "start"
    /\ LET k == Unhexlify(argv.key)
           h == Unhexlify(argv.header)
       IN  IF ~k.ok \/ ~h.ok
           THEN /\ fatal' = "invalid hex"
                /\ Return
                /\ UNCHANGED <<key_bytes, header_bytes>>
           ELSE /\ key_bytes' = k.bytes
                /\ header_bytes' = h.bytes
                /\ pc' = "dispatch"
                /\ UNCHANGED <<fatal, exit_status>>
    /\ UNCHANGED <<argv, fs, dirs, fs0, dirs0, files_to_process, success_count,
                   idx, returned, calls, touched>>
    /\ UNCHANGED cvars

\* lines 134-156: file mode
MainFileMode ==
    /\ pc = "dispatch"
    /\ IsFile(fs, argv.input_path)
    /\ LET out == FileModeOutput(fs, dirs, argv)
       IN  \E o \in decrypt_file(fs, dirs, argv.input_path, out, key_bytes,
                                 header_bytes, argv.overwrite) :
               /\ fs' = o.fs
               /\ dirs' = o.dirs
               /\ calls' = Append(calls, CallRecord(fs, dirs, argv.input_path, out, o))
    /\ Return
    /\ UNCHANGED <<argv, fs0, dirs0, key_bytes, header_bytes, files_to_process,
                   success_count, idx, returned, touched, fatal>>
    /\ UNCHANGED cvars

\* lines 159-182 and 70-93: directory mode up to the loop of process_directory
MainDirMode ==
    /\ pc = "dispatch"
    /\ ~IsFile(fs, argv.input_path)
    /\ IsDir(dirs, argv.input_path)
    /\ IF OutputIsNoDirectory(fs, dirs, argv)
       THEN /\ fatal' = "output is no directory"
            /\ Return
            /\ UNCHANGED <<dirs, files_to_process, success_count, idx, returned, touched>>
       ELSE LET output_path == IF argv.has_output THEN argv.output ELSE argv.input_path
                made == IF argv.has_output /\ ~Exists(fs, dirs, argv.output)
                        THEN MkdirParents(fs, dirs, argv.output)
                        ELSE {[dirs |-> dirs, ok |-> TRUE]}
            IN  \E m \in made :
                    /\ dirs' = m.dirs
                    /\ touched' = IF argv.has_output /\ ~Exists(fs, dirs, argv.output)
                                  THEN {"mkdir"} ELSE {}
                    /\ fatal' = fatal
                    /\ IF ~m.ok
                       THEN /\ Return
                            /\ UNCHANGED <<files_to_process, success_count, idx, returned>>
                       ELSE \E walk \in WalkOrders(fs, m.dirs, argv.input_path) :
                               LET todo == SelectFiles(walk, argv.input_path,
                                                       output_path, argv.ext)
                               IN  /\ files_to_process' = todo
                                   /\ success_count' = 0
                                   /\ idx' = 0
                                   /\ IF Len(todo) = 0
                                      THEN /\ returned' = <<0, 0>>
                                           /\ Return
                                      ELSE /\ pc' = "loop"
                                           /\ UNCHANGED <<returned, exit_status>>
    /\ UNCHANGED <<argv, fs, fs0, dirs0, key_bytes, header_bytes, calls>>
    /\ UNCHANGED cvars

\* lines 95-103: one file of the batch
ProcessFile ==
    /\ pc = "loop"
    /\ idx < Len(files_to_process)
    /\ LET task == files_to_process[idx + 1]
       IN  \E o \in decrypt_file(fs, dirs, task.input, task.output, key_bytes,
                                 header_bytes, argv.overwrite) :
               /\ fs' = o.fs
               /\ dirs' = o.dirs
               /\ calls' = Append(calls, CallRecord(fs, dirs, task.input, task.output, o))
               /\ IF o.raised
                  THEN /\ Return
                       /\ UNCHANGED <<success_count, idx>>
                  ELSE /\ success_count' = Bump(success_count, o.ret)
                       /\ idx' = idx + 1
                       /\ UNCHANGED <<pc, exit_status>>
    /\ UNCHANGED <<argv, fs0, dirs0, key_bytes, header_bytes, files_to_process,
                   returned, touched, fatal>>
    /\ UNCHANGED cvars

\* lines 105 and 184-187: the counts are returned and reported
ProcessReturn ==
    /\ pc = "loop"
    /\ idx >= Len(files_to_process)
    /\ returned' = <<success_count, Len(files_to_process)>>
    /\ Return
    /\ UNCHANGED <<argv, fs, dirs, fs0, dirs0, key_bytes, header_bytes,
                   files_to_process, success_count, idx, calls, touched, fatal>>
    /\ UNCHANGED cvars

Next == MainDecodeArgs \/ MainFileMode \/ MainDirMode \/ ProcessFile \/ ProcessReturn

Spec == Init /\ [][Next]_vars

-----------------------------------------------------------------------------
(* Claims about decrypt_content, checked under SpecCipher. *)

IsByte(b) == b \in 0..255

\* the first len(header) bytes of encrypted_content are header, byte for byte
PrefixIsHeader ==
    /\ Len(encrypted_content) >= Len(header)
    /\ \A i \in 1..Len(header) : encrypted_content[i] = header[i]

\* C1: round trip.  For every non-empty key, every header and every plaintext
\* plain, decrypt_content(header + encode(plain, key), key, header) returns
\* exactly plain.
\* (The first three conjuncts of the premise follow from the fourth: they only
\* spare the evaluation of Encode where the lengths, the header or the
\* even-indexed bytes already differ.)
C1_RoundTrip ==
    (cpc = "done" /\ Len(key) > 0) =>
        \A plain \in Plains :
            (/\ Len(plain) + Len(header) = Len(encrypted_content)
             /\ SubSeq(encrypted_content, 1, Len(header)) = header
             /\ \A i \in 1..Len(plain) :
                    i % 2 = 1 => encrypted_content[Len(header) + i] = plain[i]
             /\ encrypted_content = header \o Encode(plain, key))
                => result = BytesResult(plain)

\* a four-byte plaintext (two odd positions, so the cursor moves twice) under a
\* key whose length is not a power of two, behind a two-byte header
C1_Witness ==
    /\ cpc = "done"
    /\ Len(key) = 3
    /\ Len(header) = 2
    /\ \E plain \in Plains :
        /\ Len(plain) = 4
        /\ encrypted_content = header \o Encode(plain, key)
        /\ Encode(plain, key) /= plain
        /\ result = BytesResult(plain)

\* C2: header gating.  An input whose first len(header) bytes are not header
\* (an input shorter than header included) yields None whatever the key; an
\* input that starts with header yields a byte sequence (key non-empty, as the
\* data model requires).
C2_HeaderGating ==
    cpc = "done" =>
        /\ ~PrefixIsHeader => result = NoneResult
        /\ (PrefixIsHeader /\ Len(key) > 0) => result.kind = "bytes"

\* an input that is a proper, non-empty prefix of the header is refused
C2_Witness ==
    /\ cpc = "done"
    /\ Len(encrypted_content) = 1
    /\ Len(header) = 2
    /\ encrypted_content[1] = header[1]
    /\ result = NoneResult

\* C10: for every non-empty key the cursor starts at 0, stays within
\* 0..keyLen-1 after every update, no key index is out of range, every byte
\* written is in 0..255 and the returned body has len(encoded) - len(header)
\* bytes.
C10_CursorInRange ==
    Len(key) > 0 =>
        /\ result.kind /= "IndexError"
        /\ cpc = "loop" =>
            /\ key_idx \in 0..(Len(key) - 1)
            /\ data_idx <= 1 => key_idx = 0
            /\ Len(data) = Len(encrypted_content) - Len(header)
            /\ \A i \in 1..Len(data) : IsByte(data[i])
        /\ (cpc = "done" /\ result.kind = "bytes") =>
            /\ Len(result.data) = Len(encrypted_content) - Len(header)
            /\ \A i \in 1..Len(result.data) : IsByte(result.data[i])

\* a key of length 3 (not a power of two) whose cursor has moved off 0, over a
\* body with two odd positions
C10_Witness ==
    /\ cpc = "done"
    /\ Len(key) = 3
    /\ key_idx = 2
    /\ result.kind = "bytes"
    /\ Len(result.data) = 4

-----------------------------------------------------------------------------
(* Claims about decrypt_file, process_directory and main, checked under     *)
(* Spec.                                                                     *)

Did(c, op) == \E j \in 1..Len(c.ops) : c.ops[j] = op

Untouched(c) == c.fs_after = c.fs_before /\ c.dirs_after = c.dirs_before

HasHeader(enc, hdr) ==
    Len(enc) >= Len(hdr) /\ \A i \in 1..Len(hdr) : enc[i] = hdr[i]

ValidHex(str) == Len(str) % 2 = 0 /\ \A i \in 1..Len(str) : IsHexChar(str[i])

\* the configuration errors: a key or header that is not hex, or a directory
\* as input with an existing non-directory as --output
ConfigError ==
    \/ ~ValidHex(argv.key)
    \/ ~ValidHex(argv.header)
    \/ (argv.input_path \in dirs0 /\ argv.has_output /\ argv.output \in DOMAIN fs0)

DirectoryRun == argv.input_path \in dirs0

\* the files process_directory is to find: those under the input directory
\* whose name ends with the extension
Matching ==
    {p \in DOMAIN fs0 : IsUnder(p, argv.input_path) /\ EndsWith(Name(p), argv.ext)}

\* C3: skip semantics.  With overwrite off and a file at the output path,
\* decrypt_file returns false without reading the input, writing, or creating
\* a directory: the existing file keeps its bytes.
C3_SkipSemantics ==
    \A i \in 1..Len(calls) :
        LET c == calls[i]
        IN  (~argv.overwrite /\ c.output \in DOMAIN c.fs_before) =>
                /\ c.ret = FALSE
                /\ ~c.raised
                /\ ~Did(c, "read") /\ ~Did(c, "mkdir") /\ ~Did(c, "write")
                /\ Untouched(c)
                /\ c.fs_after[c.output] = c.fs_before[c.output]

\* a decodable input whose output is already there is skipped
C3_Witness ==
    \E i \in 1..Len(calls) :
        LET c == calls[i]
        IN  /\ ~argv.overwrite
            /\ c.output \in DOMAIN c.fs_before
            /\ c.fs_before[c.output] = Old
            /\ c.input \in DOMAIN c.fs_before
            /\ c.fs_before[c.input] = Good
            /\ Len(key_bytes) > 0
            /\ c.ops = <<"exists">>
            /\ c.ret = FALSE

\* C4: batch accounting.  process_directory calls decrypt_file once for each
\* of the N matching files, in the order of its list, whatever the earlier
\* calls did, and returns (K, N) with K the files decoded and written; and
\* 0 <= success_count <= total_count at every step.
C4_BatchAccounting ==
    /\ 0 <= success_count
    /\ success_count <= idx
    /\ idx <= Len(files_to_process)
    /\ returned /= <<>> =>
        /\ returned = <<Cardinality({i \in 1..Len(calls) : calls[i].wrote}),
                        Cardinality(Matching)>>
        /\ Len(calls) = Cardinality(Matching)
        /\ {calls[i].input : i \in 1..Len(calls)} = Matching
        /\ \A i \in 1..Len(calls) :
            /\ calls[i].input = files_to_process[i].input
            /\ calls[i].output = files_to_process[i].output

\* a batch of three or more whose first file fails with an I/O error and whose
\* second is decoded
C4_Witness ==
    /\ pc = "done"
    /\ Len(returned) = 2
    /\ returned[2] >= 3
    /\ returned[1] >= 1
    /\ returned[1] < returned[2]
    /\ calls[1].exc = "OSError"
    /\ calls[2].ret

\* C5: error isolation.  No decrypt_file call lets an exception out: an error
\* while reading, creating directories or writing gives a false return.
C5_ErrorIsolation ==
    \A i \in 1..Len(calls) :
        /\ ~calls[i].raised
        /\ calls[i].exc /= "none" => calls[i].ret = FALSE

\* a write that failed half way, leaving a changed file, still returns false
C5_Witness ==
    \E i \in 1..Len(calls) :
        /\ calls[i].exc = "OSError"
        /\ Did(calls[i], "write")
        /\ calls[i].fs_after /= calls[i].fs_before
        /\ calls[i].ret = FALSE
        /\ ~calls[i].raised

\* C6: after a configuration error main reads no input, writes no output,
\* creates no directory and calls neither decrypt_file nor process_directory.
C6_ConfigErrorsAbort ==
    ConfigError =>
        /\ calls = <<>>
        /\ touched = {}
        /\ fs = fs0
        /\ dirs = dirs0
        /\ files_to_process = <<>>
        /\ returned = <<>>
        /\ pc \in {"start", "dispatch", "done"}

\* a header of odd length, beside a good key and a decodable file: the run has
\* ended
C6_Witness ==
    /\ pc = "done"
    /\ ValidHex(argv.key)
    /\ Len(argv.key) > 0
    /\ Len(argv.header) % 2 = 1
    /\ FileA \in DOMAIN fs
    /\ fs[FileA] = Good

\* C7: a configuration error ends the command with a non-zero exit status; a
\* run whose files were only skipped or failed ends with 0.
C7_ExitStatus ==
    pc = "done" =>
        /\ ConfigError => exit_status /= 0
        /\ ~ConfigError => exit_status = 0

\* C8: decrypt_file returns true exactly when decrypt_content gave a non-empty
\* byte sequence and that sequence was written as the whole output file; on a
\* header mismatch or an empty body it returns false and leaves the files
\* and the directories as they were.
C8_WriteOnlyOnSuccess ==
    \A i \in 1..Len(calls) :
        LET c == calls[i]
        IN  /\ c.ret <=>
                (/\ c.cipher.kind = "bytes"
                 /\ Len(c.cipher.data) > 0
                 /\ c.wrote
                 /\ c.output \in DOMAIN c.fs_after
                 /\ c.fs_after[c.output] = c.cipher.data)
            /\ c.input \in DOMAIN c.fs_before =>
                LET enc == c.fs_before[c.input]
                IN  (~HasHeader(enc, header_bytes) \/ Len(enc) = Len(header_bytes)) =>
                        c.ret = FALSE /\ Untouched(c)

\* a file that is exactly the header, read and decoded to nothing with
\* overwrite on: nothing is written
C8_Witness ==
    \E i \in 1..Len(calls) :
        LET c == calls[i]
        IN  /\ argv.overwrite
            /\ Len(header_bytes) > 0
            /\ c.fs_before[c.input] = header_bytes
            /\ c.cipher = BytesResult(<<>>)
            /\ c.ret = FALSE
            /\ c.output \notin DOMAIN c.fs_after

\* C9: in a process_directory run with overwrite off, every file that was
\* there before the run keeps its bytes, every write goes to a path at which
\* nothing was when that file's decode began, and no two matched files have
\* the same output path.
C9_OriginalsKept ==
    (DirectoryRun /\ ~argv.overwrite) =>
        /\ \A p \in DOMAIN fs0 : p \in DOMAIN fs /\ fs[p] = fs0[p]
        /\ \A i \in 1..Len(calls) :
            Did(calls[i], "write") =>
                ~Exists(calls[i].fs_before, calls[i].dirs_before, calls[i].output)
        /\ \A i, j \in 1..Len(files_to_process) :
            i /= j => files_to_process[i].output /= files_to_process[j].output

\* mirror mode into a directory inside the input directory: the file whose
\* output is already there is skipped, the file found inside the output
\* directory is decoded one level deeper
C9_Witness ==
    /\ pc = "done"
    /\ DirectoryRun
    /\ ~argv.overwrite
    /\ argv.output = DirS
    /\ Len(calls) >= 2
    /\ \E i, j \in 1..Len(calls) :
        /\ calls[i].input = FileA
        /\ calls[i].output = FileSA
        /\ calls[i].ops = <<"exists">>
        /\ calls[j].input = FileSA
        /\ calls[j].wrote
        /\ calls[j].output = DirS \o << <<"s">>, <<"a">> \o DotPhp >>

=============================================================================
